---------------------------- MODULE Spec2Model ----------------------------
(***************************************************************************)
(* A model of the MIME sniffer of src/lib.rs: detect_content_type, the     *)
(* ordered table SNIFF_SIGNATURES and the five matchers.                   *)
(*                                                                         *)
(* Bytes are naturals 0..255 and byte strings are sequences of bytes.      *)
(* The code indexes from 0 and TLA+ sequences from 1: an offset o of the   *)
(* code is element o + 1 of the sequence.  Cursors (first_non_ws, st) and  *)
(* the set reads keep the code's 0-based offsets.                          *)
(***************************************************************************)
EXTENDS Naturals, Sequences, FiniteSets

(***************************************************************************)
(* Bounds of the explored input space.                                     *)
(***************************************************************************)
\* Longest run of bytes appended after a signature.
MaxFollow == 2
\* Longest short run of one whitespace byte put in front of an input.
MaxWsRun == 2
\* Largest declared box size of the short ISO-BMFF inputs, in 4-byte words.
MaxBoxWords == 5
\* Long whitespace runs have SNIFF_LEN - k bytes, k in 0..MaxEdge.
MaxEdge == 6

(***************************************************************************)
(* Program constants and byte helpers.                                     *)
(***************************************************************************)
SNIFF_LEN == 512

None == "None"
\* The value of a matcher whose loop never exits.
Diverges == "Diverges"
FALLBACK == "application/octet-stream"
TEXT_HTML == "text/html; charset=utf-8"
TEXT_PLAIN == "text/plain; charset=utf-8"
VIDEO_MP4 == "video/mp4"

\* b"ftyp" and b"mp4"
FTYP == <<102, 116, 121, 112>>
MP4_BRAND == <<109, 112, 52>>

RECURSIVE BitAnd(_, _)
\* The & of two bytes.
BitAnd(a, b) ==
  IF a = 0 \/ b = 0 THEN 0
  ELSE (a % 2) * (b % 2) + 2 * BitAnd(a \div 2, b \div 2)

\* The slice b[from..to] of the code (0-based, to excluded).
Slice(b, from, to) == SubSeq(b, from + 1, to)

\* b.starts_with(p)
StartsWith(b, p) == Len(b) >= Len(p) /\ SubSeq(b, 1, Len(p)) = p

Pad(b, n) == [i \in 1..n |-> b]

is_ws(b) == b \in {9, 10, 12, 13, 32}

is_tt(b) == b \in {32, 62}

\* A u32 is kept as its two 16-bit halves, hi * 65536 + lo: the model
\* checker's integers end at 2^31 - 1 and a declared box size does not.
decode_big_endian_utf32(b) ==
  [hi |-> b[2] + b[1] * 256, lo |-> b[4] + b[3] * 256]

\* n < u, for a u32 u and a natural n below 65536 (a length or a cursor).
U32Above(u, n) == u.hi > 0 \/ n < u.lo

\* u % 4
U32Mod4(u) == u.lo % 4

U32Zero == [hi |-> 0, lo |-> 0]

SNIFF_SIGNATURES ==
  <<
    [kind |-> "HTML", tag |-> <<60, 33, 68, 79, 67, 84, 89, 80, 69, 32, 72, 84, 77, 76>>],   \* 1: lib.rs:61 <!DOCTYPE HTML
    [kind |-> "HTML", tag |-> <<60, 72, 84, 77, 76>>],   \* 2: lib.rs:62 <HTML
    [kind |-> "HTML", tag |-> <<60, 72, 69, 65, 68>>],   \* 3: lib.rs:63 <HEAD
    [kind |-> "HTML", tag |-> <<60, 83, 67, 82, 73, 80, 84>>],   \* 4: lib.rs:64 <SCRIPT
    [kind |-> "HTML", tag |-> <<60, 73, 70, 82, 65, 77, 69>>],   \* 5: lib.rs:65 <IFRAME
    [kind |-> "HTML", tag |-> <<60, 72, 49>>],   \* 6: lib.rs:66 <H1
    [kind |-> "HTML", tag |-> <<60, 68, 73, 86>>],   \* 7: lib.rs:67 <DIV
    [kind |-> "HTML", tag |-> <<60, 70, 79, 78, 84>>],   \* 8: lib.rs:68 <FONT
    [kind |-> "HTML", tag |-> <<60, 84, 65, 66, 76, 69>>],   \* 9: lib.rs:69 <TABLE
    [kind |-> "HTML", tag |-> <<60, 65>>],   \* 10: lib.rs:70 <A
    [kind |-> "HTML", tag |-> <<60, 83, 84, 89, 76, 69>>],   \* 11: lib.rs:71 <STYLE
    [kind |-> "HTML", tag |-> <<60, 84, 73, 84, 76, 69>>],   \* 12: lib.rs:72 <TITLE
    [kind |-> "HTML", tag |-> <<60, 66>>],   \* 13: lib.rs:73 <B
    [kind |-> "HTML", tag |-> <<60, 66, 79, 68, 89>>],   \* 14: lib.rs:74 <BODY
    [kind |-> "HTML", tag |-> <<60, 66, 82>>],   \* 15: lib.rs:75 <BR
    [kind |-> "HTML", tag |-> <<60, 80>>],   \* 16: lib.rs:76 <P
    [kind |-> "HTML", tag |-> <<60, 33, 45, 45>>],   \* 17: lib.rs:77 <!--
    [kind |-> "Masked", mask |-> <<255, 255, 255, 255, 255>>,
     pat |-> <<60, 63, 120, 109, 108>>,
     skip_ws |-> TRUE, ct |-> "text/xml; charset=utf-8"],   \* 18: lib.rs:78 
    [kind |-> "Exact", sig |-> <<37, 80, 68, 70, 45>>, ct |-> "application/pdf"],   \* 19: lib.rs:84 
    [kind |-> "Exact", sig |-> <<37, 33, 80, 83, 45, 65, 100, 111, 98, 101, 45>>, ct |-> "application/postsript"],   \* 20: lib.rs:88 
    [kind |-> "Masked", mask |-> <<255, 255, 0, 0>>,
     pat |-> <<254, 255, 0, 0>>,
     skip_ws |-> FALSE, ct |-> "text/plain; charset=utf-16be"],   \* 21: lib.rs:93 
    [kind |-> "Masked", mask |-> <<255, 255, 0, 0>>,
     pat |-> <<255, 254, 0, 0>>,
     skip_ws |-> FALSE, ct |-> "text/plain; charset=utf-16le"],   \* 22: lib.rs:99 
    [kind |-> "Masked", mask |-> <<255, 255, 255, 0>>,
     pat |-> <<239, 187, 191, 0>>,
     skip_ws |-> FALSE, ct |-> "text/plain; charset=utf-8"],   \* 23: lib.rs:105 
    [kind |-> "Exact", sig |-> <<0, 0, 1, 0>>, ct |-> "image/x-icon"],   \* 24: lib.rs:118 
    [kind |-> "Exact", sig |-> <<0, 0, 2, 0>>, ct |-> "image/x-icon"],   \* 25: lib.rs:122 
    [kind |-> "Exact", sig |-> <<66, 77>>, ct |-> "image/bmp"],   \* 26: lib.rs:126 
    [kind |-> "Exact", sig |-> <<71, 73, 70, 56, 55, 97>>, ct |-> "image/gif"],   \* 27: lib.rs:130 
    [kind |-> "Exact", sig |-> <<71, 73, 70, 56, 57, 97>>, ct |-> "image/gif"],   \* 28: lib.rs:134 
    [kind |-> "Masked", mask |-> <<255, 255, 255, 255, 0, 0, 0, 0, 255, 255, 255, 255, 255, 255>>,
     pat |-> <<82, 73, 70, 70, 0, 0, 0, 0, 87, 69, 66, 80, 86, 80>>,
     skip_ws |-> FALSE, ct |-> "image/webp"],   \* 29: lib.rs:138 
    [kind |-> "Exact", sig |-> <<137, 80, 78, 71, 13, 10, 26, 10>>, ct |-> "image/png"],   \* 30: lib.rs:144 
    [kind |-> "Exact", sig |-> <<255, 216, 255>>, ct |-> "image/jpeg"],   \* 31: lib.rs:148 
    [kind |-> "Masked", mask |-> <<255, 255, 255, 255>>,
     pat |-> <<46, 115, 110, 100>>,
     skip_ws |-> FALSE, ct |-> "audio/basic"],   \* 32: lib.rs:156 
    [kind |-> "Masked", mask |-> <<255, 255, 255, 255, 0, 0, 0, 0, 255, 255, 255, 255>>,
     pat |-> <<70, 79, 82, 77, 0, 0, 0, 0, 65, 73, 70, 70>>,
     skip_ws |-> FALSE, ct |-> "audio/aiff"],   \* 33: lib.rs:162 
    [kind |-> "Masked", mask |-> <<255, 255, 255>>,
     pat |-> <<73, 68, 51>>,
     skip_ws |-> FALSE, ct |-> "audio/mpeg"],   \* 34: lib.rs:168 
    [kind |-> "Masked", mask |-> <<255, 255, 255, 255, 255>>,
     pat |-> <<79, 103, 103, 83, 0>>,
     skip_ws |-> FALSE, ct |-> "application/ogg"],   \* 35: lib.rs:174 
    [kind |-> "Masked", mask |-> <<255, 255, 255, 255, 255, 255, 255, 255>>,
     pat |-> <<77, 84, 104, 100, 0, 0, 0, 6>>,
     skip_ws |-> FALSE, ct |-> "audio/midi"],   \* 36: lib.rs:180 
    [kind |-> "Masked", mask |-> <<255, 255, 255, 255, 0, 0, 0, 0, 255, 255, 255, 255>>,
     pat |-> <<82, 73, 70, 70, 0, 0, 0, 0, 65, 86, 73, 32>>,
     skip_ws |-> FALSE, ct |-> "video/avi"],   \* 37: lib.rs:186 
    [kind |-> "Masked", mask |-> <<255, 255, 255, 255, 0, 0, 0, 0, 255, 255, 255, 255>>,
     pat |-> <<82, 73, 70, 70, 0, 0, 0, 0, 87, 65, 86, 69>>,
     skip_ws |-> FALSE, ct |-> "audio/wave"],   \* 38: lib.rs:192 
    [kind |-> "MP4"],   \* 39: lib.rs:199 
    [kind |-> "Exact", sig |-> <<26, 69, 223, 163>>, ct |-> "video/webm"],   \* 40: lib.rs:201 
    [kind |-> "Masked", mask |-> <<0, 0, 0, 0, 0, 0, 0, 0, 0, 0, 0, 0, 0, 0, 0, 0, 0, 0, 0, 0, 0, 0, 0, 0, 0, 0, 0, 0, 0, 0, 0, 0, 0, 0, 255, 255>>,
     pat |-> <<0, 0, 0, 0, 0, 0, 0, 0, 0, 0, 0, 0, 0, 0, 0, 0, 0, 0, 0, 0, 0, 0, 0, 0, 0, 0, 0, 0, 0, 0, 0, 0, 0, 0, 76, 80>>,
     skip_ws |-> FALSE, ct |-> "application/vnd.ms-fontobject"],   \* 41: lib.rs:207 
    [kind |-> "Exact", sig |-> <<0, 1, 0, 0>>, ct |-> "font/ttf"],   \* 42: lib.rs:215 
    [kind |-> "Exact", sig |-> <<79, 84, 84, 79>>, ct |-> "font/otf"],   \* 43: lib.rs:219 
    [kind |-> "Exact", sig |-> <<116, 116, 99, 102>>, ct |-> "font/collection"],   \* 44: lib.rs:223 
    [kind |-> "Exact", sig |-> <<119, 79, 70, 70>>, ct |-> "font/woff"],   \* 45: lib.rs:227 
    [kind |-> "Exact", sig |-> <<119, 79, 70, 50>>, ct |-> "font/woff2"],   \* 46: lib.rs:231 
    [kind |-> "Exact", sig |-> <<31, 139, 8>>, ct |-> "application/x-gzip"],   \* 47: lib.rs:237 
    [kind |-> "Exact", sig |-> <<80, 75, 3, 4>>, ct |-> "application/zip"],   \* 48: lib.rs:241 
    [kind |-> "Exact", sig |-> <<82, 97, 114, 33, 26, 7, 0>>, ct |-> "application/x-rar-compressed"],   \* 49: lib.rs:251 
    [kind |-> "Exact", sig |-> <<82, 97, 114, 33, 26, 7, 1, 0>>, ct |-> "application/x-rar-compressed"],   \* 50: lib.rs:255 
    [kind |-> "Exact", sig |-> <<0, 97, 115, 109>>, ct |-> "application/wasm"],   \* 51: lib.rs:260 
    [kind |-> "Text"]   \* 52: lib.rs:265 
  >>

SigCount == Len(SNIFF_SIGNATURES)
MP4Index == CHOOSE i \in 1..SigCount : SNIFF_SIGNATURES[i].kind = "MP4"
TextIndex == CHOOSE i \in 1..SigCount : SNIFF_SIGNATURES[i].kind = "Text"

(***************************************************************************)
(* The prefix extractor.                                                   *)
(***************************************************************************)
\* A prefix extractor that forgets to truncate.
TruncateNever(b) == b

\* detect_content_type, the truncation to SNIFF_LEN bytes.
Truncate(b) == IF Len(b) > SNIFF_LEN THEN SubSeq(b, 1, SNIFF_LEN) ELSE b

(***************************************************************************)
(* The matchers.  Each yields a content type or None.                      *)
(***************************************************************************)
\* An exact matcher that skips leading whitespace first.
ExactSig_skips_ws(sig, b, fnw) ==
  IF StartsWith(Slice(b, fnw, Len(b)), sig.sig) THEN sig.ct ELSE None

ExactSig_sig_match(sig, b, fnw) ==
  IF StartsWith(b, sig.sig) THEN sig.ct ELSE None

\* A masked matcher that compares the bytes without applying the mask.
MaskedSig_unmasked(sig, b, fnw) ==
  LET data == IF sig.skip_ws THEN Slice(b, fnw, Len(b)) ELSE b
  IN  IF Len(sig.pat) # Len(sig.mask) THEN None
      ELSE IF Len(data) < Len(sig.pat) THEN None
      ELSE IF \E i \in 1..Len(sig.pat) : data[i] # sig.pat[i] THEN None
      ELSE sig.ct

\* A masked matcher that never skips leading whitespace.
MaskedSig_no_skip(sig, b, fnw) ==
  IF Len(sig.pat) # Len(sig.mask) THEN None
  ELSE IF Len(b) < Len(sig.pat) THEN None
  ELSE IF \E i \in 1..Len(sig.pat) : BitAnd(b[i], sig.mask[i]) # sig.pat[i]
       THEN None
  ELSE sig.ct

MaskedSig_sig_match(sig, b, fnw) ==
  LET data == IF sig.skip_ws THEN Slice(b, fnw, Len(b)) ELSE b
  IN  IF Len(sig.pat) # Len(sig.mask) THEN None
      ELSE IF Len(data) < Len(sig.pat) THEN None
      ELSE IF \E i \in 1..Len(sig.pat) :
                BitAnd(data[i], sig.mask[i]) # sig.pat[i] THEN None
      ELSE sig.ct

\* The byte the HTML matcher compares with tag byte b for data byte db.
HTMLFold(b, db) == IF 65 <= b /\ b <= 90 THEN BitAnd(db, 223) ELSE db

\* An HTML matcher that compares case-sensitively.
HTMLSig_case_sensitive(sig, b, fnw) ==
  LET data == Slice(b, fnw, Len(b))
      h == sig.tag
  IN  IF Len(data) < Len(h) + 1 THEN None
      ELSE IF \E i \in 1..Len(h) : h[i] # data[i] THEN None
      ELSE IF ~is_tt(data[Len(h) + 1]) THEN None
      ELSE TEXT_HTML

HTMLSig_sig_match(sig, b, fnw) ==
  LET data == Slice(b, fnw, Len(b))
      h == sig.tag
  IN  IF Len(data) < Len(h) + 1 THEN None
      ELSE IF \E i \in 1..Len(h) : h[i] # HTMLFold(h[i], data[i]) THEN None
      ELSE IF ~is_tt(data[Len(h) + 1]) THEN None
      ELSE TEXT_HTML

\* The binary control bytes of the generic text rule.
IsBinaryByte(b) ==
  b <= 8 \/ b = 11 \/ (14 <= b /\ b <= 26) \/ (28 <= b /\ b <= 31)

TextSig_sig_match(b, fnw) ==
  IF \E i \in (fnw + 1)..Len(b) : IsBinaryByte(b[i]) THEN None
  ELSE TEXT_PLAIN

(***************************************************************************)
(* The MP4 matcher: the checks before the loop, one turn of the loop, and  *)
(* the loop as a whole.                                                    *)
(***************************************************************************)
\* The checks before the loop, without the comparison of the declared size
\* with the length of the prefix.
MP4Header_no_len_check(b) ==
  IF Len(b) < 12 THEN [ok |-> FALSE, box_size |-> U32Zero, reads |-> {}]
  ELSE LET box == decode_big_endian_utf32(Slice(b, 0, 4))
       IN  IF U32Mod4(box) # 0
           THEN [ok |-> FALSE, box_size |-> box, reads |-> 0..3]
           ELSE [ok |-> Slice(b, 4, 8) = FTYP,
                 box_size |-> box, reads |-> 0..7]

\* ok: the loop is entered; box_size: the declared size once decoded;
\* reads: the offsets of the prefix that were read.
MP4Header(b) ==
  IF Len(b) < 12 THEN [ok |-> FALSE, box_size |-> U32Zero, reads |-> {}]
  ELSE LET box == decode_big_endian_utf32(Slice(b, 0, 4))
       IN  IF U32Above(box, Len(b)) \/ U32Mod4(box) # 0
           THEN [ok |-> FALSE, box_size |-> box, reads |-> 0..3]
           ELSE [ok |-> Slice(b, 4, 8) = FTYP,
                 box_size |-> box, reads |-> 0..7]

\* One turn of the loop at cursor s: "exit" (the loop condition fails),
\* "continue" (the cursor is 12: the turn ends with the cursor unchanged),
\* "panic" (the slice b[s..s+3] is out of range), "match", or "advance".
MP4Turn(b, box, s) ==
  IF ~U32Above(box, s) THEN "exit"
  ELSE IF s = 12 THEN "continue"
  ELSE IF s + 3 > Len(b) THEN "panic"
  ELSE IF Slice(b, s, s + 3) = MP4_BRAND THEN "match"
  ELSE "advance"

RECURSIVE MP4Loop(_, _, _)
\* The loop from cursor s on: a turn that leaves the cursor where it was
\* repeats forever.
MP4Loop(b, box, s) ==
  LET t == MP4Turn(b, box, s)
  IN  CASE t = "exit" -> None
        [] t = "continue" -> Diverges
        [] t = "panic" -> "panic"
        [] t = "match" -> VIDEO_MP4
        [] OTHER -> MP4Loop(b, box, s + 4)

MP4Sig_sig_match(b, fnw) ==
  LET h == MP4Header(b)
  IN  IF h.ok THEN MP4Loop(b, h.box_size, 8) ELSE None

\* SniffSig::sig_match
sig_match(sig, b, fnw) ==
  CASE sig.kind = "Exact" -> ExactSig_sig_match(sig, b, fnw)
    [] sig.kind = "Masked" -> MaskedSig_sig_match(sig, b, fnw)
    [] sig.kind = "HTML" -> HTMLSig_sig_match(sig, b, fnw)
    [] sig.kind = "MP4" -> MP4Sig_sig_match(b, fnw)
    [] sig.kind = "Text" -> TextSig_sig_match(b, fnw)

(***************************************************************************)
(* The inputs explored: every signature of the table (HTML tags in three   *)
(* casings, masked patterns with their unconstrained bytes filled in),     *)
(* near misses, short and 512-byte ISO-BMFF boxes, each followed by a      *)
(* short run of bytes; and inputs longer than SNIFF_LEN.                   *)
(***************************************************************************)
IsUpper(b) == 65 <= b /\ b <= 90

Lower(t) == [i \in 1..Len(t) |-> IF IsUpper(t[i]) THEN t[i] + 32 ELSE t[i]]

Mixed(t) ==
  [i \in 1..Len(t) |-> IF IsUpper(t[i]) /\ i % 2 = 0 THEN t[i] + 32 ELSE t[i]]

\* The pattern of a masked signature with byte f where the mask is zero.
Fill(sig, f) ==
  [i \in 1..Len(sig.pat) |-> IF sig.mask[i] = 0 THEN f ELSE sig.pat[i]]

SigBytes(sig) ==
  CASE sig.kind = "Exact" -> {sig.sig}
    [] sig.kind = "Masked" -> {Fill(sig, f) : f \in {0, 65, 255}}
    [] sig.kind = "HTML" -> {sig.tag, Lower(sig.tag), Mixed(sig.tag)}
    [] OTHER -> {}

TableBases == UNION {SigBytes(SNIFF_SIGNATURES[i]) : i \in 1..SigCount}

OtherBases ==
  { <<>>,
    <<1, 2, 3>>,
    <<84, 104, 105, 115>>,                          \* This
    <<65, 27>>,                                     \* A ESC
    <<65, 11>>,                                     \* A VT
    <<60, 104, 116, 109, 108, 120>>,                \* <htmlx
    <<82, 97, 114, 32, 26, 7, 0>>,                  \* Rar \x1A\x07\x00
    <<82, 97, 114, 32, 26, 7, 1, 0>>,               \* Rar \x1A\x07\x01\x00
    <<111, 103, 103, 83, 0>>,                       \* oggS\0
    <<111, 119, 111, 119, 0>>,                      \* owow\0
    <<111, 111, 111, 83, 0>>,                       \* oooS\0
    <<254, 255>>, <<255, 254>>, <<239, 187, 191>>,  \* the byte order marks
    Pad(122, 32) \o <<76, 80, 76, 80>> }            \* 32 z, then LPLP

FollowBytes == {0, 32, 62, 120, 255}

Follow == {Pad(b, n) : b \in FollowBytes, n \in 0..MaxFollow}

SizeBytes(n) ==
  <<n \div 16777216, (n \div 65536) % 256, (n \div 256) % 256, n % 256>>

MP42 == <<109, 112, 52, 50>>
ISOM == <<105, 115, 111, 109>>
FTYQ == <<102, 116, 121, 113>>

\* Declared sizes: the multiples of 4 up to 4 * MaxBoxWords, 13, 516,
\* 2^31, 2^32 - 4 and 2^32 - 1.
BoxSizeBytes ==
  {SizeBytes(4 * k) : k \in 0..MaxBoxWords}
  \cup { SizeBytes(13), SizeBytes(516), <<128, 0, 0, 0>>,
         <<255, 255, 255, 252>>, <<255, 255, 255, 255>> }

\* The bytes of a sequence of 4-byte fields.
Flatten(fs) ==
  [i \in 1..(4 * Len(fs)) |-> fs[((i - 1) \div 4) + 1][((i - 1) % 4) + 1]]

\* A box header and the 4-byte fields at offsets 8, 12, ..., each isom or
\* mp42, cut to 11 bytes or to a whole number of fields.
MP4Inputs ==
  { SubSeq(sz \o FTYP \o Flatten(fs), 1, len) :
      sz \in BoxSizeBytes,
      fs \in [1..(MaxBoxWords - 2) -> {ISOM, MP42}],
      len \in {11} \cup {4 * k : k \in 3..MaxBoxWords} }
  \cup { SizeBytes(16) \o FTYQ \o MP42 \o MP42 }

ShortInputs == {b \o f : b \in TableBases \cup OtherBases, f \in Follow}

\* The start of a 512-byte prefix; the rest is filler.
LongHeads ==
  { <<>>, <<1>>, <<66, 77>>, <<60, 98, 62>>, <<60, 63, 120, 109, 108>>,
    SizeBytes(SNIFF_LEN - 4) \o FTYP \o MP42,
    SizeBytes(SNIFF_LEN - 4) \o FTYP \o ISOM }

\* What follows the first 512 bytes.
Tails == {<<>>, <<1>>, <<65>>}

LongInputs ==
  { h \o Pad(f, SNIFF_LEN - Len(h)) \o t :
      h \in LongHeads, f \in {32, 65}, t \in Tails }

Inputs == ShortInputs \cup MP4Inputs \cup LongInputs

WS == {9, 10, 12, 13, 32}

\* The inputs that are also tried behind a whitespace run of about
\* SNIFF_LEN bytes.
EdgeInputs ==
  { <<66, 77>>, <<60, 98, 62>>, <<60, 104, 116, 109, 108, 62>>,
    <<60, 63, 120, 109, 108>>, <<60, 66, 32>> }

\* The inputs of a second call: x behind a whitespace run, and the inputs
\* that share the first SNIFF_LEN bytes of x.
Related(x) ==
  {Pad(w, n) \o x : w \in WS, n \in 1..MaxWsRun}
  \cup (IF x \in EdgeInputs
        THEN {Pad(32, SNIFF_LEN - k) \o x : k \in 0..MaxEdge} ELSE {})
  \cup (IF Len(x) >= SNIFF_LEN
        THEN {SubSeq(x, 1, SNIFF_LEN) \o t : t \in Tails} \ {x} ELSE {})

(***************************************************************************)
(* The state: a caller's two successive calls of detect_content_type, and  *)
(* the locals of the call in progress.                                     *)
(***************************************************************************)
VARIABLES
  input,          \* the argument of the call in progress
  call,           \* 1 or 2
  prev_input,     \* the argument of the first call, once it returned
  prev_result,    \* what the first call returned
  prev_idx,       \* the table index at which the first call returned
  pc,             \* "entry", "skip_ws", "match", "mp4_scan", "panic", "done"
  data,           \* detect_content_type: data
  first_non_ws,   \* detect_content_type: first_non_ws
  idx,            \* the index in SNIFF_SIGNATURES of the loop of line 24
  box_size,       \* MP4Sig::sig_match: box_size
  st,             \* MP4Sig::sig_match: st
  reads,          \* the offsets of data the MP4 matcher has read
  result          \* the returned content type

vars ==
  <<input, call, prev_input, prev_result, prev_idx, pc, data, first_non_ws,
    idx, box_size, st, reads, result>>

caller == <<input, call, prev_input, prev_result, prev_idx>>

\* The state before the first call, on an input of S.
Start(S) ==
  /\ input \in S
  /\ call = 1
  /\ prev_input = <<>>
  /\ prev_result = None
  /\ prev_idx = 0
  /\ pc = "entry"
  /\ data = <<>>
  /\ first_non_ws = 0
  /\ idx = 1
  /\ box_size = U32Zero
  /\ st = 0
  /\ reads = {}
  /\ result = None

Init == Start(Inputs)

\* The inputs of the runs checked for progress: the boxes, the long inputs
\* and the inputs that match no signature.
LiveInputs ==
  MP4Inputs \cup LongInputs \cup {b \o f : b \in OtherBases, f \in Follow}

LiveInit == Start(LiveInputs)

\* Lines 13-19: the prefix of at most SNIFF_LEN bytes.
Enter ==
  /\ pc = "entry"
  /\ data' = Truncate(input)
  /\ first_non_ws' = 0
  /\ pc' = "skip_ws"
  /\ UNCHANGED <<caller, idx, box_size, st, reads, result>>

\* Lines 20-22: one turn of the whitespace loop, or its exit.
SkipWs ==
  /\ pc = "skip_ws"
  /\ IF first_non_ws < Len(data) /\ is_ws(data[first_non_ws + 1])
     THEN /\ first_non_ws' = first_non_ws + 1
          /\ UNCHANGED <<pc, idx>>
     ELSE /\ pc' = "match"
          /\ idx' = 1
          /\ UNCHANGED first_non_ws
  /\ UNCHANGED <<caller, data, box_size, st, reads, result>>

\* A dispatcher that goes on after a match: the last match wins.
MatchSig_last_wins ==
  /\ pc = "match"
  /\ idx <= SigCount
  /\ SNIFF_SIGNATURES[idx].kind # "MP4"
  /\ LET ct == sig_match(SNIFF_SIGNATURES[idx], data, first_non_ws)
     IN  IF idx = SigCount
         THEN /\ pc' = "done"
              /\ result' = IF ct # None THEN ct
                           ELSE IF result # None THEN result ELSE FALLBACK
              /\ UNCHANGED idx
         ELSE /\ result' = IF ct # None THEN ct ELSE result
              /\ idx' = idx + 1
              /\ UNCHANGED pc
  /\ UNCHANGED <<caller, data, first_non_ws, box_size, st, reads>>

\* Lines 24-30: one turn of the loop over the table, for an entry whose
\* matcher has no loop of its own to step through.
MatchSig ==
  /\ pc = "match"
  /\ idx <= SigCount
  /\ SNIFF_SIGNATURES[idx].kind # "MP4"
  /\ LET ct == sig_match(SNIFF_SIGNATURES[idx], data, first_non_ws)
     IN  IF ct # None
         THEN /\ result' = ct
              /\ pc' = "done"
              /\ UNCHANGED idx
         ELSE /\ idx' = idx + 1
              /\ UNCHANGED <<pc, result>>
  /\ UNCHANGED <<caller, data, first_non_ws, box_size, st, reads>>

\* Lines 24-25 and 366-380: the turn of the table loop that reaches the
\* MP4 entry, up to the start of the matcher's loop.
MP4Begin ==
  /\ pc = "match"
  /\ idx <= SigCount
  /\ SNIFF_SIGNATURES[idx].kind = "MP4"
  /\ LET h == MP4Header(data)
     IN  /\ box_size' = h.box_size
         /\ reads' = h.reads
         /\ IF h.ok
            THEN /\ pc' = "mp4_scan"
                 /\ st' = 8
                 /\ UNCHANGED idx
            ELSE /\ idx' = idx + 1
                 /\ UNCHANGED <<pc, st>>
  /\ UNCHANGED <<caller, data, first_non_ws, result>>

\* Lines 381-392 and 26-29: one turn of the matcher's loop.  At cursor 12
\* the turn is `continue` with st as it was: the next turn is the same
\* turn, and the step leaves every variable unchanged.
MP4Scan ==
  /\ pc = "mp4_scan"
  /\ LET t == MP4Turn(data, box_size, st)
     IN  CASE t = "exit" ->
                /\ pc' = "match"
                /\ idx' = idx + 1
                /\ UNCHANGED <<st, reads, result>>
           [] t = "continue" ->
                UNCHANGED <<pc, idx, st, reads, result>>
           [] t = "panic" ->
                /\ pc' = "panic"
                /\ reads' = reads \cup {st, st + 1, st + 2}
                /\ UNCHANGED <<idx, st, result>>
           [] t = "match" ->
                /\ pc' = "done"
                /\ result' = VIDEO_MP4
                /\ reads' = reads \cup {st, st + 1, st + 2}
                /\ UNCHANGED <<idx, st>>
           [] OTHER ->
                /\ st' = st + 4
                /\ reads' = reads \cup {st, st + 1, st + 2}
                /\ UNCHANGED <<pc, idx, result>>
  /\ UNCHANGED <<caller, data, first_non_ws, box_size>>

\* Line 32: the table is exhausted.
Fallback ==
  /\ pc = "match"
  /\ idx > SigCount
  /\ result' = FALLBACK
  /\ pc' = "done"
  /\ UNCHANGED <<caller, data, first_non_ws, idx, box_size, st, reads>>

\* Lines 499-500: the caller's next call, on a related input.
NextCall ==
  /\ pc = "done"
  /\ call = 1
  /\ \E y \in Related(input) : input' = y
  /\ call' = 2
  /\ prev_input' = input
  /\ prev_result' = result
  /\ prev_idx' = idx
  /\ pc' = "entry"
  /\ data' = <<>>
  /\ first_non_ws' = 0
  /\ idx' = 1
  /\ box_size' = U32Zero
  /\ st' = 0
  /\ reads' = {}
  /\ result' = None

Next ==
  \/ Enter
  \/ SkipWs
  \/ MatchSig
  \/ MP4Begin
  \/ MP4Scan
  \/ Fallback
  \/ NextCall

Spec == Init /\ [][Next]_vars

\* A sequential program takes its next step whenever it has one.
LiveSpec == LiveInit /\ [][Next]_vars /\ WF_vars(Next)

(***************************************************************************)
(* What the properties below are stated with.  These definitions read the  *)
(* inputs and the table; only NoEarlierMatch uses the matchers.            *)
(***************************************************************************)
Returned == pc = "done"

\* The first SNIFF_LEN bytes of b.
First512(b) == SubSeq(b, 1, IF Len(b) < SNIFF_LEN THEN Len(b) ELSE SNIFF_LEN)

\* The number of whitespace bytes b begins with.
LeadingWs(b) ==
  (CHOOSE i \in 1..(Len(b) + 1) :
     /\ i = Len(b) + 1 \/ b[i] \notin WS
     /\ \A j \in 1..(i - 1) : b[j] \in WS) - 1

\* a and b agree on their first SNIFF_LEN bytes.
SamePrefix(a, b) == First512(a) = First512(b)

\* y is x behind a non-empty run of whitespace bytes.
WsPrefixed(x, y) ==
  /\ Len(y) > Len(x)
  /\ \A i \in 1..(Len(y) - Len(x)) : y[i] \in WS
  /\ SubSeq(y, Len(y) - Len(x) + 1, Len(y)) = x

Upper(c) == IF 97 <= c /\ c <= 122 THEN c - 32 ELSE c

Tags ==
  { SNIFF_SIGNATURES[i].tag :
      i \in {j \in 1..SigCount : SNIFF_SIGNATURES[j].kind = "HTML"} }

\* After its leading whitespace b holds tag t, in any casing, and then a
\* space or '>'.
IsTagged(b, t) ==
  LET k == LeadingWs(b)
  IN  /\ Len(b) >= k + Len(t) + 1
      /\ \A i \in 1..Len(t) : Upper(b[k + i]) = t[i]
      /\ b[k + Len(t) + 1] \in {32, 62}

\* The number of bytes of b up to the byte that ends tag t.
TagEnd(b, t) == LeadingWs(b) + Len(t) + 1

\* The number of bytes entry i needs after the whitespace it skips.
SigLen(i) ==
  LET sig == SNIFF_SIGNATURES[i]
  IN  CASE sig.kind = "HTML" -> Len(sig.tag) + 1
        [] sig.kind = "Masked" -> Len(sig.pat)
        [] sig.kind = "Exact" -> Len(sig.sig)
        [] OTHER -> 0

XmlIndex ==
  CHOOSE i \in 1..SigCount :
    SNIFF_SIGNATURES[i].kind = "Masked" /\ SNIFF_SIGNATURES[i].skip_ws

TEXT_XML == SNIFF_SIGNATURES[XmlIndex].ct

CtIndex(ct) ==
  CHOOSE i \in 1..SigCount :
    SNIFF_SIGNATURES[i].kind \in {"Exact", "Masked"}
    /\ SNIFF_SIGNATURES[i].ct = ct

\* The entries that do not skip leading whitespace.
NoSkipEntries ==
  { i \in 1..SigCount :
      \/ SNIFF_SIGNATURES[i].kind \in {"Exact", "MP4"}
      \/ SNIFF_SIGNATURES[i].kind = "Masked" /\ ~SNIFF_SIGNATURES[i].skip_ws }

EotIndex == CtIndex("application/vnd.ms-fontobject")

Matched(v) == v \notin {None, Diverges}

ControlBytes == (0..8) \cup {11} \cup (14..26) \cup (28..31)

\* What the generic text rule and the fallback make of b.
TextVerdict(b) ==
  IF \E i \in (LeadingWs(First512(b)) + 1)..Len(First512(b)) :
       First512(b)[i] \in ControlBytes
  THEN FALLBACK ELSE TEXT_PLAIN

\* The declared box size of d is above n (n below 65536).
DeclaredAbove(d, n) == d[1] > 0 \/ d[2] > 0 \/ d[3] * 256 + d[4] > n

\* d is at least 12 bytes, declares a box size that is a multiple of 4 and
\* at most its length, and has ftyp at offset 4.
MP4Pre(d) ==
  /\ Len(d) >= 12
  /\ ~DeclaredAbove(d, Len(d))
  /\ d[4] % 4 = 0
  /\ SubSeq(d, 5, 8) = FTYP

\* Some 4-byte field at offset 8, 16, 20, ... below the box size starts
\* with mp4.
MP4Brand(d) ==
  \E off \in 8..(d[3] * 256 + d[4] - 1) :
    off % 4 = 0 /\ off # 12 /\ SubSeq(d, off + 1, off + 3) = MP4_BRAND

\* d is shorter than 12 bytes, or declares a box size above its length or
\* not a multiple of 4.
MP4Rejected(d) ==
  Len(d) < 12 \/ DeclaredAbove(d, Len(d)) \/ d[4] % 4 # 0

\* No entry before the generic text entry matches the prefix of b: none of
\* the other matchers does, and b is no ftyp box with an mp4 brand.
NoEarlierMatch(b) ==
  /\ \A i \in (1..(TextIndex - 1)) \ {MP4Index} :
       sig_match(SNIFF_SIGNATURES[i], First512(b),
                 LeadingWs(First512(b))) = None
  /\ ~(MP4Pre(First512(b)) /\ MP4Brand(First512(b)))

(***************************************************************************)
(* C1: every call of detect_content_type returns, for every input, also    *)
(* for an ftyp box whose declared size is above 12 and whose field at      *)
(* offset 8 does not start with mp4.                                       *)
(***************************************************************************)
C1_Terminates ==
  \A c \in 1..2 :
    (call = c /\ pc = "entry") ~> (call = c /\ Returned)

(***************************************************************************)
(* C2: two inputs that agree on their first 512 bytes get the same content *)
(* type, and no matcher sees a byte at offset 512 or beyond.               *)
(***************************************************************************)
C2_TruncationInvariance ==
  /\ Len(data) <= SNIFF_LEN
  /\ \A i \in reads : i < SNIFF_LEN
  /\ pc # "entry" => data = First512(input)
  /\ (call = 2 /\ Returned /\ SamePrefix(prev_input, input))
       => result = prev_result

C2_Witness ==
  /\ call = 2 /\ Returned
  /\ SamePrefix(prev_input, input)
  /\ Len(input) > SNIFF_LEN
  /\ input # prev_input
  /\ result = prev_result

(***************************************************************************)
(* C3: the content type returned is that of the lowest-index entry of      *)
(* SNIFF_SIGNATURES whose matcher succeeds on the prefix, and the fallback *)
(* when none does.                                                         *)
(***************************************************************************)
C3_FirstMatchWins ==
  Returned =>
    LET M == { i \in 1..SigCount :
                 Matched(sig_match(SNIFF_SIGNATURES[i], data, first_non_ws)) }
    IN  IF M = {} THEN result = FALLBACK
        ELSE LET m == CHOOSE i \in M : \A j \in M : i <= j
             IN  /\ idx = m
                 /\ result = sig_match(SNIFF_SIGNATURES[m], data, first_non_ws)

\* BM...: the exact signature and the generic text rule both match.
C3_Witness ==
  /\ Returned
  /\ result = "image/bmp"
  /\ Matched(sig_match(SNIFF_SIGNATURES[TextIndex], data, first_non_ws))

(***************************************************************************)
(* C4 as claimed: an input that, after its leading whitespace, holds a     *)
(* listed tag in any casing and then a space or '>' is text/html; an input *)
(* that holds no listed tag followed by such a byte is not.                *)
(***************************************************************************)
C4_Original ==
  Returned =>
    /\ (\E t \in Tags : IsTagged(input, t)) => result = TEXT_HTML
    /\ ~(\E t \in Tags : IsTagged(input, t)) => result # TEXT_HTML

(***************************************************************************)
(* C4 as amended: an input is text/html exactly when, after its leading    *)
(* whitespace, it holds a listed tag in any casing and then a space or     *)
(* '>', all of it within the first 512 bytes.                              *)
(***************************************************************************)
C4_HtmlTags ==
  Returned =>
    (result = TEXT_HTML <=>
       \E t \in Tags : IsTagged(input, t) /\ TagEnd(input, t) <= SNIFF_LEN)

\* A tag with a lower-case letter, behind whitespace.
C4_Witness ==
  /\ Returned
  /\ result = TEXT_HTML
  /\ LeadingWs(input) > 0
  /\ input[LeadingWs(input) + 2] \in 97..122

(***************************************************************************)
(* C5 as claimed: an input detected as text/html or as text/xml keeps its  *)
(* content type behind any run of whitespace.                              *)
(***************************************************************************)
C5_Original ==
  (/\ call = 2 /\ Returned
   /\ WsPrefixed(prev_input, input)
   /\ prev_result \in {TEXT_HTML, TEXT_XML})
    => result = prev_result

(***************************************************************************)
(* C5 as amended: an input detected as text/html or as text/xml keeps its  *)
(* content type behind a run of whitespace that leaves the matched         *)
(* signature (the tag and the byte that ends it, or <?xml) within the      *)
(* first 512 bytes.                                                        *)
(***************************************************************************)
C5_WhitespaceTolerance ==
  (/\ call = 2 /\ Returned
   /\ WsPrefixed(prev_input, input)
   /\ prev_result \in {TEXT_HTML, TEXT_XML}
   /\ LeadingWs(input) + SigLen(prev_idx) <= SNIFF_LEN)
    => result = prev_result

C5_Witness ==
  /\ call = 2 /\ Returned
  /\ WsPrefixed(prev_input, input)
  /\ prev_result = TEXT_XML
  /\ result = TEXT_XML

(***************************************************************************)
(* C6 as claimed: an input matched by an entry that does not skip          *)
(* whitespace is not matched by that entry behind a run of whitespace.     *)
(***************************************************************************)
C6_Original ==
  (call = 2 /\ Returned /\ WsPrefixed(prev_input, input)) =>
    \A i \in NoSkipEntries :
      Matched(sig_match(SNIFF_SIGNATURES[i], Truncate(prev_input), 0))
        => sig_match(SNIFF_SIGNATURES[i], data, first_non_ws) = None

(***************************************************************************)
(* C6 as amended: the same, for every entry that does not skip whitespace  *)
(* but the application/vnd.ms-fontobject entry, whose mask leaves the      *)
(* first 34 bytes free.                                                    *)
(***************************************************************************)
C6_NoSkipNoMatch ==
  (call = 2 /\ Returned /\ WsPrefixed(prev_input, input)) =>
    \A i \in NoSkipEntries \ {EotIndex} :
      Matched(sig_match(SNIFF_SIGNATURES[i], Truncate(prev_input), 0))
        => sig_match(SNIFF_SIGNATURES[i], data, first_non_ws) = None

\* A byte order mark behind whitespace is plain text.
C6_Witness ==
  /\ call = 2 /\ Returned
  /\ WsPrefixed(prev_input, input)
  /\ prev_result = "text/plain; charset=utf-16be"
  /\ result = TEXT_PLAIN

(***************************************************************************)
(* C7: an input that no entry before the generic text entry matches is     *)
(* text/plain when its prefix holds no control byte after the leading      *)
(* whitespace, and application/octet-stream when it holds one.             *)
(***************************************************************************)
C7_TextOrFallback ==
  \A c \in 1..2 :
    (call = c /\ pc = "entry" /\ NoEarlierMatch(input))
      ~> (call = c /\ Returned /\ result = TextVerdict(input))

(***************************************************************************)
(* C8: on a prefix of at least 12 bytes with a box size that is a multiple *)
(* of 4 and at most the length, and ftyp at offset 4, the MP4 matcher      *)
(* yields video/mp4 when a field at offset 8, 16, 20, ... below the box    *)
(* size starts with mp4, and no match (the dispatcher goes on) when none   *)
(* does.                                                                   *)
(***************************************************************************)
C8_BrandScan ==
  \A c \in 1..2 :
    (call = c /\ pc = "match" /\ idx = MP4Index /\ MP4Pre(data))
      ~> (/\ call = c
          /\ MP4Pre(data)
          /\ IF MP4Brand(data)
             THEN Returned /\ idx = MP4Index /\ result = VIDEO_MP4
             ELSE idx > MP4Index)

(***************************************************************************)
(* C9: the MP4 matcher reads only offsets below the prefix length and, in  *)
(* the brand scan, below the declared box size; a prefix it rejects        *)
(* (shorter than 12 bytes, box size above the length or not a multiple of  *)
(* 4) has no brand field read and is no match; the cursor stays within the *)
(* prefix, far from any overflow.                                          *)
(***************************************************************************)
C9_MP4Bounds ==
  /\ pc # "panic"
  /\ \A i \in reads : i < Len(data) /\ (i >= 8 => U32Above(box_size, i))
  /\ pc = "mp4_scan" => st <= Len(data) /\ st + 4 <= 65535
  /\ MP4Rejected(data) =>
       /\ \A i \in reads : i < 8
       /\ pc # "mp4_scan"
       /\ result # VIDEO_MP4

C9_Witness ==
  /\ Returned
  /\ result = VIDEO_MP4
  /\ reads = 0..10
  /\ Len(data) = SNIFF_LEN

(***************************************************************************)
(* C10 as claimed: every input that begins with FE FF is utf-16be, every   *)
(* input that begins with FF FE is utf-16le, and every input that begins   *)
(* with EF BB BF is matched by the UTF-8 byte order mark entry, whatever   *)
(* follows, if anything.                                                   *)
(***************************************************************************)
C10_Original ==
  Returned =>
    /\ StartsWith(input, <<254, 255>>)
         => result = "text/plain; charset=utf-16be"
    /\ StartsWith(input, <<255, 254>>)
         => result = "text/plain; charset=utf-16le"
    /\ StartsWith(input, <<239, 187, 191>>)
         => result = TEXT_PLAIN /\ idx = CtIndex(TEXT_PLAIN)

(***************************************************************************)
(* C10 as amended: the same for every input of at least 4 bytes, the       *)
(* length of the masked patterns; the bytes after the signature are free.  *)
(***************************************************************************)
C10_ByteOrderMarks ==
  (Returned /\ Len(input) >= 4) =>
    /\ StartsWith(input, <<254, 255>>)
         => result = "text/plain; charset=utf-16be"
    /\ StartsWith(input, <<255, 254>>)
         => result = "text/plain; charset=utf-16le"
    /\ StartsWith(input, <<239, 187, 191>>)
         => result = TEXT_PLAIN /\ idx = CtIndex(TEXT_PLAIN)

\* FE FF followed by two bytes that are not the zeros of the pattern.
C10_Witness ==
  /\ Returned
  /\ input = <<254, 255, 255, 255>>
  /\ result = "text/plain; charset=utf-16be"

=============================================================================
